---- MODULE Spec2Model ----
(***************************************************************************)
(* chunk-store: split a file into chunks, optionally encrypt them, record  *)
(* them in a manifest, upload them to cloud accounts, download them again  *)
(* and reassemble the file.                                                *)
(*                                                                         *)
(* Modelling conventions                                                   *)
(*  - a byte string is a sequence over Byte; a Go string that is absent    *)
(*    ("") is the empty sequence;                                          *)
(*  - SHA-256 is an ideal hash: on the bounded inputs neither the digest   *)
(*    nor its 8-byte prefix collides; the digest is a pair of words whose  *)
(*    first word is the prefix;                                            *)
(*  - AES-256-GCM is an ideal AEAD: the nonce is one symbol, the body is   *)
(*    the plaintext masked by a key stream, the tag is one symbol that is  *)
(*    an injective code of (key, nonce, body);                             *)
(*  - os.File.Read on the regular input file fills the buffer unless the   *)
(*    file ends first; text fields hold valid UTF-8.                       *)
(*  - where two definitions stand under one comment, the second is the    *)
(*    source's and the first a faulty variant of it, kept to show that the *)
(*    properties below depend on the definition.                           *)
(***************************************************************************)
EXTENDS Integers, Sequences, FiniteSets, TLC

\* ------------------------------------------------------------------ bounds
MaxLen == 3
MaxChunkSize == 2
MaxEmptyChunks == 2
MaxReplication == 2
MaxPasses == 2

\* The byte alphabet (two symbols stand for the 256 byte values).
Byte == {0, 1}
ByteMod == Cardinality(Byte)
Inputs == UNION {[1..n -> Byte] : n \in 0..MaxLen}
ChunkSizes == (-1)..MaxChunkSize
Passwords == {<<0>>, <<1>>}
Nonces == Byte

\* --------------------------------------------------------------- helpers
Min(a, b) == IF a < b THEN a ELSE b

RECURSIVE SeqCode(_)
\* An injective numbering of byte strings (a leading 1, then the digits).
SeqCode(s) == IF s = <<>> THEN 1 ELSE SeqCode(SubSeq(s, 1, Len(s) - 1)) * ByteMod + s[Len(s)]

RECURSIVE SumBytes(_)
SumBytes(s) == IF s = <<>> THEN 0 ELSE s[1] + SumBytes(Tail(s))

\* ------------------------------------------------------------ chunker hash
\* sha256.Sum256(data): two words; the first is the 8-byte prefix.
Sha256Sum(data) == <<SeqCode(data), Len(data) + SumBytes(data)>>

\* id := fmt.Sprintf("%x", hash[:8])
ChunkIDCollide(hash) == <<hash[2]>>
ChunkID(hash) == <<hash[1]>>

\* fmt.Sprintf("%x", hash[:])
HashHexShort(hash) == <<hash[2]>>
HashHex(hash) == hash

\* -------------------------------------------------------------- encryption
NonceSize == 1
TagSize == 1

\* CreateEncryptionConfig: the key is the SHA-256 of the password.
CreateEncryptionConfig(password, enabled) ==
    IF ~enabled THEN [Enabled |-> FALSE, Key |-> <<>>]
    ELSE [Enabled |-> TRUE, Key |-> Sha256Sum(password)]

\* The CTR key stream byte at position i.
KeyStream(key, nonce, i) == (key[1] + nonce + i) % ByteMod

\* The GCM authentication tag of a body under (key, nonce).
GcmTag(key, nonce, body) ==
    ByteMod + (SeqCode(body) * ByteMod + nonce) * (2 * ByteMod) + (key[1] - ByteMod)

\* gcm.Seal(nonce, nonce, plaintext, nil)
GcmSeal(key, nonce, plaintext) ==
    LET body == [i \in 1..Len(plaintext) |->
                    (plaintext[i] + KeyStream(key, nonce, i)) % ByteMod]
    IN <<nonce>> \o body \o <<GcmTag(key, nonce, body)>>

\* EncryptionConfig.Encrypt with the nonce rand.Reader produced.
EncryptNoNonce(ec, plaintext, nonce) ==
    IF ~ec.Enabled THEN plaintext
    ELSE Tail(GcmSeal(ec.Key, nonce, plaintext))
Encrypt(ec, plaintext, nonce) ==
    IF ~ec.Enabled THEN plaintext
    ELSE GcmSeal(ec.Key, nonce, plaintext)

\* EncryptionConfig.Decrypt: [err, data]; err = "" on success.
DecryptNoAuth(ec, ciphertext) ==
    IF ~ec.Enabled THEN [err |-> "", data |-> ciphertext]
    ELSE IF Len(ciphertext) < NonceSize
    THEN [err |-> "ciphertext too short", data |-> <<>>]
    ELSE LET nonce == ciphertext[1]
             encryptedData == SubSeq(ciphertext, NonceSize + 1, Len(ciphertext))
         IN IF Len(encryptedData) < TagSize
            THEN [err |-> "failed to decrypt", data |-> <<>>]
            ELSE LET body == SubSeq(encryptedData, 1, Len(encryptedData) - TagSize)
                 IN [err |-> "",
                     data |-> [i \in 1..Len(body) |->
                        (body[i] + ByteMod - KeyStream(ec.Key, nonce, i)) % ByteMod]]
Decrypt(ec, ciphertext) ==
    IF ~ec.Enabled THEN [err |-> "", data |-> ciphertext]
    ELSE IF Len(ciphertext) < NonceSize
    THEN [err |-> "ciphertext too short", data |-> <<>>]
    ELSE LET nonce == ciphertext[1]
             encryptedData == SubSeq(ciphertext, NonceSize + 1, Len(ciphertext))
         IN IF Len(encryptedData) < TagSize
            THEN [err |-> "failed to decrypt", data |-> <<>>]
            ELSE LET body == SubSeq(encryptedData, 1, Len(encryptedData) - TagSize)
                     tag == encryptedData[Len(encryptedData)]
                 IN IF tag # GcmTag(ec.Key, nonce, body)
                    THEN [err |-> "failed to decrypt", data |-> <<>>]
                    ELSE [err |-> "",
                          data |-> [i \in 1..Len(body) |->
                             (body[i] + ByteMod - KeyStream(ec.Key, nonce, i)) % ByteMod]]

\* ---------------------------------------------------------------- Go values
\* A Go slice: nil, or a (possibly empty) list.
NilSlice == [isNil |-> TRUE, elems |-> <<>>]
MakeSlice(s) == [isNil |-> FALSE, elems |-> s]
GoAppend(sl, x) == [isNil |-> FALSE, elems |-> Append(sl.elems, x)]
\* A Go map: nil, or a (possibly empty) table.
EmptyKV == [k \in {} |-> <<>>]
NilMap == [isNil |-> TRUE, kv |-> EmptyKV]

\* time.Now().Format(time.RFC3339) at clock value t; "" is <<>>.
FormatTime(t) == <<t>>

\* ------------------------------------------------------------------ manifest
\* manifest.ChunkInfo as SplitFileWithChunkSize builds it.
NewChunkInfo(id, hash, index, encrypted, size) ==
    [ID |-> id, Hash |-> hash, Index |-> index, Encrypted |-> encrypted,
     CloudPaths |-> MakeSlice(<<>>), Providers |-> MakeSlice(<<>>),
     Size |-> size, UploadTime |-> <<>>, CloudIDs |-> NilMap]

RECURSIVE SumSizes(_)
SumSizes(cs) == IF cs = <<>> THEN 0 ELSE cs[1].Size + SumSizes(Tail(cs))

\* The Manifest value WriteManifestWithMode builds before marshalling.
BuildManifestStale(chunks, original, encrypted, distributionMode, t) ==
    [OriginalName |-> original, Chunks |-> chunks, Encrypted |-> encrypted,
     CreatedTime |-> FormatTime(t),
     TotalSize |-> IF chunks.elems = <<>> THEN 0 ELSE chunks.elems[1].Size,
     ChunkCount |-> Len(chunks.elems),
     DistributionMode |-> distributionMode]
BuildManifest(chunks, original, encrypted, distributionMode, t) ==
    [OriginalName |-> original, Chunks |-> chunks, Encrypted |-> encrypted,
     CreatedTime |-> FormatTime(t),
     TotalSize |-> SumSizes(chunks.elems),
     ChunkCount |-> Len(chunks.elems),
     DistributionMode |-> distributionMode]

\* encoding/json of a []string: null for a nil slice, an array otherwise.
JsonStrings(sl) == IF sl.isNil THEN [j |-> "null"] ELSE [j |-> "array", items |-> sl.elems]
FromJsonStrings(v) == IF v.j = "null" THEN NilSlice ELSE MakeSlice(v.items)

\* json.Marshal of a ChunkInfo; cloud_ids is omitted when empty (omitempty).
MarshalChunk(c) ==
    LET base == [id |-> c.ID, hash |-> c.Hash, index |-> c.Index,
                 encrypted |-> c.Encrypted,
                 cloud_paths |-> JsonStrings(c.CloudPaths),
                 providers |-> JsonStrings(c.Providers),
                 size |-> c.Size, upload_time |-> c.UploadTime]
    IN IF c.CloudIDs.isNil \/ DOMAIN c.CloudIDs.kv = {}
       THEN base
       ELSE base @@ [cloud_ids |-> c.CloudIDs.kv]

\* json.Unmarshal into a ChunkInfo.
UnmarshalChunk(j) ==
    [ID |-> j.id, Hash |-> j.hash, Index |-> j.index, Encrypted |-> j.encrypted,
     CloudPaths |-> FromJsonStrings(j.cloud_paths),
     Providers |-> FromJsonStrings(j.providers),
     Size |-> j.size, UploadTime |-> j.upload_time,
     CloudIDs |-> IF "cloud_ids" \in DOMAIN j
                  THEN [isNil |-> FALSE, kv |-> j.cloud_ids]
                  ELSE NilMap]

\* json.MarshalIndent(m, "", "\t")
MarshalManifest(m) ==
    [original_name |-> m.OriginalName,
     chunks |-> IF m.Chunks.isNil THEN [j |-> "null"]
                ELSE [j |-> "array",
                      items |-> [i \in 1..Len(m.Chunks.elems) |->
                                    MarshalChunk(m.Chunks.elems[i])]],
     encrypted |-> m.Encrypted,
     created_time |-> m.CreatedTime,
     total_size |-> m.TotalSize,
     chunk_count |-> m.ChunkCount,
     distribution_mode |-> m.DistributionMode]

\* json.Unmarshal(data, &m)
UnmarshalManifestDropIDs(doc) ==
    [OriginalName |-> doc.original_name,
     Chunks |-> IF doc.chunks.j = "null" THEN NilSlice
                ELSE MakeSlice([i \in 1..Len(doc.chunks.items) |->
                        [UnmarshalChunk(doc.chunks.items[i]) EXCEPT !.CloudIDs = NilMap]]),
     Encrypted |-> doc.encrypted,
     CreatedTime |-> doc.created_time,
     TotalSize |-> doc.total_size,
     ChunkCount |-> doc.chunk_count,
     DistributionMode |-> doc.distribution_mode]
UnmarshalManifest(doc) ==
    [OriginalName |-> doc.original_name,
     Chunks |-> IF doc.chunks.j = "null" THEN NilSlice
                ELSE MakeSlice([i \in 1..Len(doc.chunks.items) |->
                                    UnmarshalChunk(doc.chunks.items[i])]),
     Encrypted |-> doc.encrypted,
     CreatedTime |-> doc.created_time,
     TotalSize |-> doc.total_size,
     ChunkCount |-> doc.chunk_count,
     DistributionMode |-> doc.distribution_mode]

\* WriteManifestWithMode: the document os.WriteFile stores at the path.
WriteManifestWithMode(chunks, original, encrypted, distributionMode, t) ==
    MarshalManifest(BuildManifest(chunks, original, encrypted, distributionMode, t))

\* WriteManifest
WriteManifest(chunks, original, encrypted, t) ==
    WriteManifestWithMode(chunks, original, encrypted, "local", t)

\* ------------------------------------------------------------ cloudstorage
GoogleDrive == "gdrive"
Dropbox == "dropbox"
Local == "local"

\* GetChunkDestination: the providers chunk chunkIndex goes to.
RoundRobinNoOffset(cds, chunkIndex) ==
    [i \in 1..cds.ReplicationCount |->
        cds.Providers[(chunkIndex % Len(cds.Providers)) + 1]]
RoundRobin(cds, chunkIndex) ==
    [i \in 1..cds.ReplicationCount |->
        cds.Providers[((chunkIndex + (i - 1)) % Len(cds.Providers)) + 1]]

\* The loop of the default branch, which "random" falls through to.
DefaultBalancingFirst(cds, chunkIndex) ==
    [i \in 1..cds.ReplicationCount |-> cds.Providers[1]]
DefaultBalancing(cds, chunkIndex) ==
    [i \in 1..cds.ReplicationCount |->
        cds.Providers[((chunkIndex + (i - 1)) % Len(cds.Providers)) + 1]]

\* The empty-pool result.
LocalOnlyNone == <<>>
LocalOnly == <<Local>>

GetChunkDestination(cds, chunkIndex) ==
    IF Len(cds.Providers) = 0 THEN LocalOnly
    ELSE IF cds.LoadBalancing = "round_robin" THEN RoundRobin(cds, chunkIndex)
    ELSE DefaultBalancing(cds, chunkIndex)

\* CustomCloudStrategy(providers), as main builds the strategy.
CustomCloudStrategy(providers) ==
    [Providers |-> IF Len(providers) = 0 THEN <<GoogleDrive>> ELSE providers,
     ReplicationCount |-> 1, LoadBalancing |-> "round_robin"]

\* GenerateCloudPath: <<directory, chunk id, extension>>.
GenerateCloudPath(provider, chunkID) ==
    IF provider = GoogleDrive THEN <<"distributed-chunks/", chunkID, ".chunk">>
    ELSE IF provider = Dropbox THEN <<"/Apps/DistributedChunks/", chunkID, ".chunk">>
    ELSE IF provider = "onedrive" THEN <<"DistributedChunks/", chunkID, ".chunk">>
    ELSE IF provider = "mega" THEN <<"chunks/", chunkID, ".chunk">>
    ELSE IF provider = "ipfs" THEN <<"", chunkID, "">>
    ELSE <<"chunks/", chunkID, ".chunk">>

\* filepath.Base of a cloud path.
PathBase(cloudPath) == <<cloudPath[2], cloudPath[3]>>

\* ================================================================== state
VARIABLES
    input,        \* the bytes of the input file
    inOpened,     \* the input file has been opened
    dirCreated,   \* the chunk directory has been created
    chunkDir,     \* the chunk directory: file stem (chunk id) -> stored bytes
    manifestFile, \* <<>> when absent, else <<document>>
    out,          \* the output file: <<>> when absent, else <<bytes>>
    cloud,        \* Google Drive: file id -> [account, name, content]
    uploader,     \* the CloudUploader of the configuration: Strategy, googleDrives
    now,          \* the clock
    pc,           \* "start", "split", "idle", "upload", "download", "assemble", "done"
    loc,          \* the local variables of the running operation
    lastOp,       \* the operation that ran last
    result,       \* what it returned: "" for nil, else the error
    splitEc,      \* the EncryptionConfig split was called with
    splitSize,    \* the chunk size split was called with
    tampered,     \* a stored chunk byte was changed after split
    shuffled,     \* the manifest's chunk array was reordered after split
    splitManifest, \* the manifest file as split wrote it
    chunkReads,   \* chunk files read by AssembleFile
    manifestWrites, \* manifest writes of the running (or last) operation
    trail,        \* the operations run so far, in order
    dl            \* the last download pass: its accounts, whether a backend call failed

disk == <<input, inOpened, dirCreated, chunkDir, manifestFile, out>>
hist == <<splitEc, splitSize, tampered, shuffled, splitManifest>>
vars == <<input, inOpened, dirCreated, chunkDir, manifestFile, out, cloud, uploader,
          now, pc, loc, lastOp, result, splitEc, splitSize, tampered, shuffled,
          splitManifest, chunkReads, manifestWrites, trail, dl>>

NoLoc == [op |-> "none"]
NoFiles == [k \in {} |-> <<>>]
OriginalName == "input.bin"
EncConfigs == {CreateEncryptionConfig(<<>>, FALSE)}
              \cup {CreateEncryptionConfig(p, TRUE) : p \in Passwords}
AccountSets == {{}, {"primary"}, {"primary", "backup"}}
ProviderLists == {<<GoogleDrive>>, <<GoogleDrive, Dropbox>>}
Strategies == [Providers : ProviderLists, ReplicationCount : 1..MaxReplication,
               LoadBalancing : {"round_robin"}]
Uploaders == [Strategy : Strategies, googleDrives : AccountSets]

InitOf(inputs, uploaders) ==
    /\ input \in inputs
    /\ inOpened = FALSE
    /\ dirCreated = FALSE
    /\ chunkDir = NoFiles
    /\ manifestFile = <<>>
    /\ out = <<>>
    /\ cloud = NoFiles
    /\ uploader \in uploaders
    /\ now = 1
    /\ pc = "start"
    /\ loc = NoLoc
    /\ lastOp = "none"
    /\ result = ""
    /\ splitEc = CreateEncryptionConfig(<<>>, FALSE)
    /\ splitSize = 1
    /\ tampered = FALSE
    /\ shuffled = FALSE
    /\ splitManifest = <<>>
    /\ chunkReads = 0
    /\ manifestWrites = 0
    /\ trail = <<>>
    /\ dl = [accounts |-> {}, faulty |-> FALSE, n |-> 0, attempts |-> <<>>]

Init == InitOf(Inputs, {[Strategy |-> CustomCloudStrategy(<<>>), googleDrives |-> {}]})

\* ------------------------------------------------- SplitFileWithChunkSize
\* os.Open, Stat, MkdirAll, make([]byte, chunkSize): a negative size panics
\* in make, after the file is open and the directory exists.
SplitFileWithChunkSize_OpenWith(chunkSize, ec) ==
    /\ pc = "start"
    /\ inOpened' = TRUE
    /\ dirCreated' = TRUE
    /\ splitEc' = ec
    /\ splitSize' = chunkSize
    /\ lastOp' = "split"
    /\ trail' = Append(trail, "split")
    /\ manifestWrites' = 0
    /\ IF chunkSize < 0
       THEN /\ pc' = "idle"
            /\ result' = "panic: makeslice: len out of range"
            /\ loc' = NoLoc
       ELSE /\ pc' = "split"
            /\ result' = ""
            /\ loc' = [op |-> "split", chunkSize |-> chunkSize, ec |-> ec,
                       index |-> 0, off |-> 0, chunks |-> NilSlice]
    /\ UNCHANGED <<input, chunkDir, manifestFile, out, cloud, uploader, now,
                   tampered, shuffled, splitManifest, chunkReads, dl>>

SplitFileWithChunkSize_Open ==
    \E chunkSize \in ChunkSizes, ec \in EncConfigs :
        SplitFileWithChunkSize_OpenWith(chunkSize, ec)

\* n of inFile.Read(buf): a zero-length buffer reads (0, nil), never EOF.
ReadLen(chunkSize, off) == Min(chunkSize, Len(input) - off)
\* n == 0 && err == io.EOF
AtEOFShortRead(chunkSize, off) == chunkSize > 0 /\ Len(input) - off < chunkSize
AtEOF(chunkSize, off) == chunkSize > 0 /\ ReadLen(chunkSize, off) = 0

\* index++
NextIndexStuck(index) == index
NextIndex(index) == index + 1

\* One iteration of the read loop: read, encrypt, hash, write the chunk file,
\* append the record.
SplitFileWithChunkSize_Chunk ==
    /\ pc = "split"
    /\ ~AtEOF(loc.chunkSize, loc.off)
    /\ loc.chunkSize = 0 => loc.index < MaxEmptyChunks
    /\ \E nonce \in Nonces :
        LET n == ReadLen(loc.chunkSize, loc.off)
            data == SubSeq(input, loc.off + 1, loc.off + n)
            encryptedData == Encrypt(loc.ec, data, nonce)
            hash == Sha256Sum(data)
            id == ChunkID(hash)
        IN /\ chunkDir' = (id :> encryptedData) @@ chunkDir
           /\ loc' = [loc EXCEPT
                        !.chunks = GoAppend(loc.chunks,
                            NewChunkInfo(id, HashHex(hash), loc.index,
                                         loc.ec.Enabled, Len(encryptedData))),
                        !.index = NextIndex(loc.index),
                        !.off = loc.off + n]
    /\ UNCHANGED <<input, inOpened, dirCreated, manifestFile, out, cloud, uploader,
                   now, pc, lastOp, result, hist, chunkReads, manifestWrites, trail, dl>>

\* The errors an iteration of the read loop returns: inFile.Read fails with
\* an error other than io.EOF, Encrypt fails (only an enabled configuration
\* does any work that can), os.WriteFile of the chunk file fails.
SplitErrors(ec) ==
    {"read error", "write error"}
        \cup (IF ec.Enabled THEN {"failed to encrypt chunk"} ELSE {})

\* An iteration of the read loop returns an error: split returns it, the
\* records gathered so far are dropped and the manifest is not written. A
\* failed os.WriteFile may leave the chunk file created and empty.
SplitFileWithChunkSize_FailSaving ==
    /\ pc = "split"
    /\ ~AtEOF(loc.chunkSize, loc.off)
    /\ \E err \in SplitErrors(loc.ec) :
        LET n == ReadLen(loc.chunkSize, loc.off)
            data == SubSeq(input, loc.off + 1, loc.off + n)
            hash == Sha256Sum(data)
            id == ChunkID(hash)
            chunks == GoAppend(loc.chunks,
                          NewChunkInfo(id, HashHex(hash), loc.index,
                                       loc.ec.Enabled, Len(data)))
        IN /\ result' = err
           /\ chunkDir' \in {chunkDir}
                   \cup (IF err = "write error" /\ id \notin DOMAIN chunkDir
                         THEN {(id :> <<>>) @@ chunkDir} ELSE {})
           /\ manifestFile' = <<WriteManifest(chunks, OriginalName, loc.ec.Enabled, now)>>
    /\ manifestWrites' = manifestWrites + 1
    /\ pc' = "idle"
    /\ loc' = NoLoc
    /\ UNCHANGED <<input, inOpened, dirCreated, out, cloud, uploader, now,
                   lastOp, hist, chunkReads, trail, dl>>
SplitFileWithChunkSize_Fail ==
    /\ pc = "split"
    /\ ~AtEOF(loc.chunkSize, loc.off)
    /\ \E err \in SplitErrors(loc.ec) :
        LET n == ReadLen(loc.chunkSize, loc.off)
            data == SubSeq(input, loc.off + 1, loc.off + n)
            id == ChunkID(Sha256Sum(data))
        IN /\ result' = err
           /\ chunkDir' \in {chunkDir}
                   \cup (IF err = "write error" /\ id \notin DOMAIN chunkDir
                         THEN {(id :> <<>>) @@ chunkDir} ELSE {})
    /\ pc' = "idle"
    /\ loc' = NoLoc
    /\ UNCHANGED <<input, inOpened, dirCreated, manifestFile, out, cloud, uploader,
                   now, lastOp, hist, chunkReads, manifestWrites, trail, dl>>

\* Read returned (0, io.EOF): leave the loop and write the manifest.
SplitFileWithChunkSize_Done ==
    /\ pc = "split"
    /\ AtEOF(loc.chunkSize, loc.off)
    /\ manifestFile' = <<WriteManifest(loc.chunks, OriginalName, loc.ec.Enabled, now)>>
    /\ splitManifest' = manifestFile'
    /\ manifestWrites' = manifestWrites + 1
    /\ pc' = "idle"
    /\ result' = ""
    /\ loc' = NoLoc
    /\ UNCHANGED <<input, inOpened, dirCreated, chunkDir, out, cloud, uploader, now,
                   lastOp, splitEc, splitSize, tampered, shuffled, chunkReads,
                   trail, dl>>

\* ------------------------------------------------------------ environment
\* One byte of one stored chunk file of a completed split is changed.
TamperChunk ==
    /\ pc = "idle"
    /\ ~tampered
    /\ manifestFile # <<>>
    /\ \E id \in DOMAIN chunkDir :
        \E p \in 1..Len(chunkDir[id]) :
          \E v \in Byte \ {chunkDir[id][p]} :
            chunkDir' = [chunkDir EXCEPT ![id] = [@ EXCEPT ![p] = v]]
    /\ tampered' = TRUE
    /\ UNCHANGED <<input, inOpened, dirCreated, manifestFile, out, cloud, uploader,
                   now, pc, loc, lastOp, result, splitEc, splitSize, shuffled,
                   splitManifest, chunkReads, manifestWrites, trail, dl>>

Reorderings(n) == {f \in [1..n -> 1..n] : \A i, j \in 1..n : f[i] = f[j] => i = j}

\* The chunk array of the manifest document is stored in another order.
ShuffleManifest ==
    /\ pc = "idle"
    /\ ~shuffled
    /\ manifestFile # <<>>
    /\ manifestFile[1].chunks.j = "array"
    /\ LET items == manifestFile[1].chunks.items
       IN \E f \in Reorderings(Len(items)) :
            /\ \E i \in 1..Len(items) : f[i] # i
            /\ manifestFile' = <<[manifestFile[1] EXCEPT
                    !.chunks.items = [i \in 1..Len(items) |-> items[f[i]]]]>>
    /\ shuffled' = TRUE
    /\ UNCHANGED <<input, inOpened, dirCreated, chunkDir, out, cloud, uploader, now,
                   pc, loc, lastOp, result, splitEc, splitSize, tampered,
                   splitManifest, chunkReads, manifestWrites, trail, dl>>

\* ------------------------------------------------------------ ReadManifest
\* ReadManifest: [err, m].
ReadManifest ==
    IF manifestFile = <<>>
    THEN [err |-> "open manifest: no such file"]
    ELSE [err |-> "", m |-> UnmarshalManifest(manifestFile[1])]

\* ------------------------------------------------------------ AssembleFile
RECURSIVE InsertByIndex(_, _)
InsertByIndex(c, s) ==
    IF s = <<>> THEN <<c>>
    ELSE IF c.Index < s[1].Index THEN <<c>> \o s
    ELSE <<s[1]>> \o InsertByIndex(c, Tail(s))

RECURSIVE SortByIndex(_)
\* sort.Slice(m.Chunks, func(i, j) { return Chunks[i].Index < Chunks[j].Index })
SortUnsorted(cs) == cs
SortByIndex(cs) == IF cs = <<>> THEN <<>> ELSE InsertByIndex(cs[1], SortByIndex(Tail(cs)))

\* The encrypted flag of the manifest against the caller's setting.
FlagErrorNone(m, ec) == ""
FlagError(m, ec) ==
    IF m.Encrypted /\ ~ec.Enabled
    THEN "file was encrypted but no decryption key provided"
    ELSE IF ~m.Encrypted /\ ec.Enabled
    THEN "file was not encrypted but decryption key provided"
    ELSE ""

\* ReadManifest, the flag check, the sort, MkdirAll and os.Create.
AssembleFile_OpenWith(ec) ==
    /\ pc = "idle"
    /\ lastOp' = "assemble"
    /\ trail' = Append(trail, "assemble")
    /\ chunkReads' = 0
    /\ manifestWrites' = 0
    /\ LET r == ReadManifest
       IN IF r.err # ""
          THEN /\ pc' = "done" /\ result' = r.err
               /\ loc' = [op |-> "assemble", ec |-> ec]
               /\ out' = out
          ELSE IF FlagError(r.m, ec) # ""
          THEN /\ pc' = "done" /\ result' = FlagError(r.m, ec)
               /\ loc' = [op |-> "assemble", ec |-> ec]
               /\ out' = out
          ELSE /\ pc' = "assemble" /\ result' = ""
               /\ loc' = [op |-> "assemble", ec |-> ec,
                          chunks |-> SortByIndex(r.m.Chunks.elems), i |-> 1]
               /\ out' = <<<<>>>>
    /\ UNCHANGED <<input, inOpened, dirCreated, chunkDir, manifestFile, cloud,
                   uploader, now, hist, dl>>

AssembleFile_Open == \E ec \in EncConfigs : AssembleFile_OpenWith(ec)

\* One iteration of the assembly loop: read the chunk file, decrypt, verify
\* the hash, append to the output file.
AssembleFile_Chunk ==
    /\ pc = "assemble"
    /\ loc.i <= Len(loc.chunks)
    /\ LET c == loc.chunks[loc.i]
       IN IF c.ID \notin DOMAIN chunkDir
          THEN /\ pc' = "done" /\ result' = "open chunk: no such file"
               /\ UNCHANGED <<out, chunkReads, loc>>
          ELSE LET d == Decrypt(loc.ec, chunkDir[c.ID])
               IN /\ chunkReads' = chunkReads + 1
                  /\ IF d.err # ""
                     THEN /\ pc' = "done" /\ result' = "failed to decrypt chunk"
                          /\ UNCHANGED <<out, loc>>
                     ELSE IF c.Hash # HashHex(Sha256Sum(d.data))
                     THEN /\ pc' = "done" /\ result' = "hash mismatch on chunk"
                          /\ UNCHANGED <<out, loc>>
                     ELSE /\ out' = <<out[1] \o d.data>>
                          /\ loc' = [loc EXCEPT !.i = loc.i + 1]
                          /\ UNCHANGED <<pc, result>>
    /\ UNCHANGED <<input, inOpened, dirCreated, chunkDir, manifestFile, cloud,
                   uploader, now, lastOp, hist, manifestWrites, trail, dl>>

\* The loop is over: return nil.
AssembleFile_Done ==
    /\ pc = "assemble"
    /\ loc.i > Len(loc.chunks)
    /\ pc' = "done"
    /\ result' = ""
    /\ UNCHANGED <<disk, cloud, uploader, now, loc, lastOp, hist, chunkReads,
                   manifestWrites, trail, dl>>

\* ------------------------------------------------------------ UploadChunks
\* The cloudIDs key that holds the account name of a provider.
AccountKey(provider) == provider \o "_account"

\* uploadToGoogleDriveMultiAccount with client.UploadFile: the possible
\* results. The account is accountNames[chunkIndex % len], where accountNames
\* lists the keys of a Go map in iteration order, which Go leaves unspecified:
\* any client may be selected. UploadFile fails when the local file cannot
\* be opened, and may fail in the backend.
uploadToGoogleDriveMultiAccount(googleDrives, canRead) ==
    {"fail"} \cup (IF canRead THEN googleDrives ELSE {})

\* The possible outcomes of the destinations loop of one chunk: per
\* destination "fail" or the account that took the replica.
UploadOutcomes(destinations, googleDrives, canRead) ==
    {oc \in [1..Len(destinations) -> {"fail"} \cup googleDrives] :
        \A j \in 1..Len(destinations) :
            IF destinations[j] = GoogleDrive
            THEN oc[j] \in uploadToGoogleDriveMultiAccount(googleDrives, canRead)
            ELSE oc[j] = "fail"}

RECURSIVE UploadReplicas(_, _, _, _, _, _)
RECURSIVE UploadReplicasAbort(_, _, _, _, _, _)
\* The destinations loop of one chunk from destination j on: acc holds
\* cloudPaths, providers, cloudIDs and the cloud store.
UploadReplicasAbort(destinations, oc, chunkID, content, j, acc) ==
    IF j > Len(destinations) \/ oc[j] = "fail" THEN acc
    ELSE LET provider == destinations[j]
             cloudPath == GenerateCloudPath(provider, chunkID)
             fileID == Cardinality(DOMAIN acc.cloud) + 1
         IN UploadReplicasAbort(destinations, oc, chunkID, content, j + 1,
              [cloudPaths |-> GoAppend(acc.cloudPaths, cloudPath),
               providers |-> GoAppend(acc.providers, provider),
               cloudIDs |-> (provider :> fileID) @@ (AccountKey(provider) :> oc[j])
                                @@ acc.cloudIDs,
               cloud |-> (fileID :> [account |-> oc[j], name |-> PathBase(cloudPath),
                                     content |-> content]) @@ acc.cloud])
UploadReplicas(destinations, oc, chunkID, content, j, acc) ==
    IF j > Len(destinations) THEN acc
    ELSE IF oc[j] = "fail"
    THEN UploadReplicas(destinations, oc, chunkID, content, j + 1, acc)
    ELSE LET provider == destinations[j]
             cloudPath == GenerateCloudPath(provider, chunkID)
             fileID == Cardinality(DOMAIN acc.cloud) + 1
         IN UploadReplicas(destinations, oc, chunkID, content, j + 1,
              [cloudPaths |-> GoAppend(acc.cloudPaths, cloudPath),
               providers |-> GoAppend(acc.providers, provider),
               cloudIDs |-> (provider :> fileID) @@ (AccountKey(provider) :> oc[j])
                                @@ acc.cloudIDs,
               cloud |-> (fileID :> [account |-> oc[j], name |-> PathBase(cloudPath),
                                     content |-> content]) @@ acc.cloud])

\* The chunk record after its destinations loop (lines 125-131).
UpdateChunkInfoKeepPaths(chunk, r, t) ==
    [chunk EXCEPT !.CloudPaths = IF r.cloudPaths.isNil THEN @ ELSE r.cloudPaths,
                  !.Providers = IF r.providers.isNil THEN @ ELSE r.providers,
                  !.UploadTime = FormatTime(t),
                  !.CloudIDs = IF DOMAIN r.cloudIDs # {}
                               THEN [isNil |-> FALSE, kv |-> r.cloudIDs] ELSE @]
UpdateChunkInfoReindex(chunk, r, t) ==
    [chunk EXCEPT !.Index = 0,
                  !.CloudPaths = r.cloudPaths,
                  !.Providers = r.providers,
                  !.UploadTime = FormatTime(t),
                  !.CloudIDs = IF DOMAIN r.cloudIDs # {}
                               THEN [isNil |-> FALSE, kv |-> r.cloudIDs] ELSE @]
UpdateChunkInfo(chunk, r, t) ==
    [chunk EXCEPT !.CloudPaths = r.cloudPaths,
                  !.Providers = r.providers,
                  !.UploadTime = FormatTime(t),
                  !.CloudIDs = IF DOMAIN r.cloudIDs # {}
                               THEN [isNil |-> FALSE, kv |-> r.cloudIDs] ELSE @]

\* ReadManifest at the start of an upload pass.
UploadChunks_Open ==
    /\ pc = "idle"
    /\ now <= MaxPasses
    /\ lastOp' = "upload"
    /\ trail' = Append(trail, "upload")
    /\ manifestWrites' = 0
    /\ now' = now + 1
    /\ LET r == ReadManifest
       IN IF r.err # ""
          THEN /\ pc' = "idle" /\ result' = "failed to read manifest" /\ loc' = NoLoc
          ELSE /\ pc' = "upload" /\ result' = ""
               /\ loc' = [op |-> "upload", m |-> r.m, i |-> 1, ocs |-> <<>>]
    /\ UNCHANGED <<disk, cloud, uploader, hist, chunkReads, dl>>

\* One iteration of the chunk loop: every destination of the chunk is
\* attempted, the record is updated.
UploadChunks_ChunkSaving ==
    /\ pc = "upload"
    /\ loc.i <= Len(loc.m.Chunks.elems)
    /\ LET chunk == loc.m.Chunks.elems[loc.i]
           destinations == GetChunkDestination(uploader.Strategy, chunk.Index)
           canRead == chunk.ID \in DOMAIN chunkDir
           content == IF canRead THEN chunkDir[chunk.ID] ELSE <<>>
       IN \E oc \in UploadOutcomes(destinations, uploader.googleDrives, canRead) :
            LET r == UploadReplicas(destinations, oc, chunk.ID, content, 1,
                        [cloudPaths |-> NilSlice, providers |-> NilSlice,
                         cloudIDs |-> EmptyKV, cloud |-> cloud])
            IN /\ cloud' = r.cloud
               /\ loc' = [loc EXCEPT !.m.Chunks.elems[loc.i] = UpdateChunkInfo(chunk, r, now),
                                     !.i = loc.i + 1,
                                     !.ocs = Append(loc.ocs, oc)]
    /\ manifestFile' = <<WriteManifestWithMode(loc'.m.Chunks, loc.m.OriginalName,
                                               loc.m.Encrypted, "cloud", now)>>
    /\ manifestWrites' = manifestWrites + 1
    /\ UNCHANGED <<input, inOpened, dirCreated, chunkDir, out, uploader, now, pc,
                   lastOp, result, hist, chunkReads, trail, dl>>
UploadChunks_Chunk ==
    /\ pc = "upload"
    /\ loc.i <= Len(loc.m.Chunks.elems)
    /\ LET chunk == loc.m.Chunks.elems[loc.i]
           destinations == GetChunkDestination(uploader.Strategy, chunk.Index)
           canRead == chunk.ID \in DOMAIN chunkDir
           content == IF canRead THEN chunkDir[chunk.ID] ELSE <<>>
       IN \E oc \in UploadOutcomes(destinations, uploader.googleDrives, canRead) :
            LET r == UploadReplicas(destinations, oc, chunk.ID, content, 1,
                        [cloudPaths |-> NilSlice, providers |-> NilSlice,
                         cloudIDs |-> EmptyKV, cloud |-> cloud])
            IN /\ cloud' = r.cloud
               /\ loc' = [loc EXCEPT !.m.Chunks.elems[loc.i] = UpdateChunkInfo(chunk, r, now),
                                     !.i = loc.i + 1,
                                     !.ocs = Append(loc.ocs, oc)]
    /\ UNCHANGED <<disk, uploader, now, pc, lastOp, result, hist, chunkReads,
                   manifestWrites, trail, dl>>

\* After the loop: WriteManifestWithMode(..., "cloud") and return its error.
UploadChunks_Done ==
    /\ pc = "upload"
    /\ loc.i > Len(loc.m.Chunks.elems)
    /\ manifestFile' = <<WriteManifestWithMode(loc.m.Chunks, loc.m.OriginalName,
                                               loc.m.Encrypted, "cloud", now)>>
    /\ manifestWrites' = manifestWrites + 1
    /\ pc' = "idle"
    /\ result' = ""
    /\ loc' = NoLoc
    /\ UNCHANGED <<input, inOpened, dirCreated, chunkDir, out, cloud, uploader, now,
                   lastOp, hist, chunkReads, trail, dl>>

\* ----------------------------------------------------------- CleanupChunks
\* main runs CleanupChunks when -cloud-cleanup is set and UploadChunks
\* returned nil: every .chunk file of the directory is removed.
CleanupChunks ==
    /\ pc = "idle"
    /\ lastOp = "upload"
    /\ result = ""
    /\ chunkDir' = NoFiles
    /\ lastOp' = "cleanup"
    /\ trail' = Append(trail, "cleanup")
    /\ UNCHANGED <<input, inOpened, dirCreated, manifestFile, out, cloud, uploader,
                   now, pc, loc, result, hist, chunkReads, manifestWrites, dl>>

\* ---------------------------------------------------------- DownloadChunks
\* client.DownloadFile(fileID, localPath) by the client of account t against
\* the store: the content that lands in the local file.
DownloadFileFirst(store, t, f) ==
    IF f \in DOMAIN store /\ store[f].account = t
    THEN [ok |-> TRUE, fault |-> FALSE, content |-> store[1].content]
    ELSE [ok |-> FALSE, fault |-> FALSE, content |-> <<>>]
DownloadFile(store, t, f) ==
    IF f \in DOMAIN store /\ store[f].account = t
    THEN [ok |-> TRUE, fault |-> FALSE, content |-> store[f].content]
    ELSE [ok |-> FALSE, fault |-> FALSE, content |-> <<>>]

\* The possible results of the download of destination j of a chunk by an
\* uploader with clients googleDrives: [ok, fault, content].
DownloadResults(chunk, j, googleDrives) ==
    LET provider == chunk.Providers.elems[j]
        cloudPath == chunk.CloudPaths.elems[j]
        ids == chunk.CloudIDs
        Failed == [ok |-> FALSE, fault |-> FALSE, content |-> <<>>]
        BackendFault == [ok |-> FALSE, fault |-> TRUE, content |-> <<>>]
    IN IF provider # GoogleDrive \/ googleDrives = {} THEN {Failed}
       ELSE LET \* the account recorded for the chunk, else the first client
                \* of the map iteration
                targets == IF /\ ~ids.isNil
                              /\ AccountKey(provider) \in DOMAIN ids.kv
                              /\ ids.kv[AccountKey(provider)] \in googleDrives
                           THEN {ids.kv[AccountKey(provider)]}
                           ELSE googleDrives
                \* the recorded file id, else FindFileByName
                Files(t) == IF ~ids.isNil /\ provider \in DOMAIN ids.kv
                            THEN {ids.kv[provider]}
                            ELSE {f \in DOMAIN cloud :
                                    /\ cloud[f].account = t
                                    /\ cloud[f].name = PathBase(cloudPath)}
            IN {BackendFault}
               \cup UNION {IF Files(t) = {} THEN {Failed}
                           ELSE {DownloadFile(cloud, t, f) : f \in Files(t)} : t \in targets}

\* The index of the first successful attempt, 0 when there is none.
FirstOk(rs, n) ==
    IF \E j \in 1..n : rs[j].ok
    THEN CHOOSE j \in 1..n : rs[j].ok /\ \A i \in 1..(j - 1) : ~rs[i].ok
    ELSE 0

\* The destinations loop with its break: the recorded destinations that are
\* contacted, in the order of the contacts.
ContactedAll(rs, n) == [j \in 1..n |-> j]
Contacted(rs, n) == [j \in 1..(IF FirstOk(rs, n) = 0 THEN n ELSE FirstOk(rs, n)) |-> j]

\* What DownloadChunks returns once the destinations of a chunk are tried.
AfterDestinationsStrict(k) == IF k = 0 THEN "chunk unavailable" ELSE ""
AfterDestinations(k) == ""

\* ReadManifest and MkdirAll at the start of a download pass.
DownloadChunks_OpenWith(accounts) ==
    /\ pc = "idle"
    /\ lastOp # "download"
    /\ lastOp' = "download"
    /\ trail' = Append(trail, "download")
    /\ manifestWrites' = 0
    /\ dl' = [accounts |-> accounts, faulty |-> FALSE, n |-> 0, attempts |-> <<>>]
    /\ LET r == ReadManifest
       IN IF r.err # ""
          THEN /\ pc' = "idle" /\ result' = "failed to read manifest" /\ loc' = NoLoc
               /\ UNCHANGED dirCreated
          ELSE /\ pc' = "download" /\ result' = ""
               /\ loc' = [op |-> "download", m |-> r.m, i |-> 1]
               /\ dirCreated' = TRUE
    /\ UNCHANGED <<input, inOpened, chunkDir, manifestFile, out, cloud, uploader,
                   now, hist, chunkReads>>

DownloadChunks_Open == \E accounts \in AccountSets : DownloadChunks_OpenWith(accounts)

\* One iteration of the chunk loop: a chunk without cloud paths ends the pass
\* with an error; otherwise the recorded destinations are tried in order
\* until one delivers the chunk file, and the loop goes on to the next chunk.
DownloadChunks_Chunk ==
    /\ pc = "download"
    /\ loc.i <= Len(loc.m.Chunks.elems)
    /\ LET chunk == loc.m.Chunks.elems[loc.i]
           n == Min(Len(chunk.CloudPaths.elems), Len(chunk.Providers.elems))
       IN IF Len(chunk.CloudPaths.elems) = 0
          THEN /\ pc' = "idle" /\ result' = "chunk has no cloud paths"
               /\ loc' = NoLoc
               /\ UNCHANGED <<chunkDir, dl>>
          ELSE \E rs \in [1..n -> UNION {DownloadResults(chunk, j, dl.accounts) : j \in 1..n}] :
                 /\ \A j \in 1..n : rs[j] \in DownloadResults(chunk, j, dl.accounts)
                 /\ LET k == FirstOk(rs, n)
                        tried == Contacted(rs, n)
                    IN /\ chunkDir' = IF k = 0 THEN chunkDir
                                      ELSE (chunk.ID :> rs[k].content) @@ chunkDir
                       /\ dl' = [dl EXCEPT
                                  !.faulty = @ \/ \E a \in 1..Len(tried) : rs[tried[a]].fault,
                                  !.n = n,
                                  !.attempts = [a \in 1..Len(tried) |->
                                                  [dest |-> tried[a], ok |-> rs[tried[a]].ok]]]
                       /\ IF AfterDestinations(k) # ""
                          THEN /\ pc' = "idle" /\ result' = AfterDestinations(k)
                               /\ loc' = NoLoc
                          ELSE /\ loc' = [loc EXCEPT !.i = loc.i + 1]
                               /\ UNCHANGED <<pc, result>>
    /\ UNCHANGED <<input, inOpened, dirCreated, manifestFile, out, cloud, uploader,
                   now, lastOp, hist, chunkReads, manifestWrites, trail>>

\* After the loop: return nil.
DownloadChunks_Done ==
    /\ pc = "download"
    /\ loc.i > Len(loc.m.Chunks.elems)
    /\ pc' = "idle"
    /\ result' = ""
    /\ loc' = NoLoc
    /\ UNCHANGED <<disk, cloud, uploader, now, lastOp, hist, chunkReads,
                   manifestWrites, trail, dl>>

Next ==
    \/ SplitFileWithChunkSize_Open
    \/ SplitFileWithChunkSize_Chunk
    \/ SplitFileWithChunkSize_Fail
    \/ SplitFileWithChunkSize_Done
    \/ TamperChunk
    \/ ShuffleManifest
    \/ AssembleFile_Open
    \/ AssembleFile_Chunk
    \/ AssembleFile_Done

Spec == Init /\ [][Next]_vars

\* The cloud scenario is the pipeline of cmd/main.go: split, upload passes
\* (each possibly followed by a cleanup, so that a later pass finds the local
\* chunk files gone), download, assemble, each stage optional, with a
\* positive chunk
\* size; the
\* inputs are the empty file, MaxCloudLen equal bytes and MaxCloudLen
\* alternating bytes; the download runs with the accounts of the upload or
\* with none, the assembly with the configuration of the split.
MaxCloudLen == 2
CloudInputs == {<<>>, [i \in 1..MaxCloudLen |-> 0],
                [i \in 1..MaxCloudLen |-> (i - 1) % ByteMod]}
CloudUploaders == {u \in Uploaders :
                     u.Strategy.ReplicationCount > 1 => Cardinality(u.googleDrives) <= 1}
InitCloud == InitOf(CloudInputs, CloudUploaders)

Stage(op) == CASE op = "split" -> 1 [] op = "upload" -> 2 [] op = "cleanup" -> 2
               [] op = "download" -> 4 [] op = "assemble" -> 5
\* No later stage of the pipeline has run.
Pipeline(op) == \A k \in 1..Len(trail) : Stage(trail[k]) <= Stage(op)

NextCloud ==
    \/ \E chunkSize \in 1..MaxChunkSize :
         \E ec \in {CreateEncryptionConfig(<<>>, FALSE), CreateEncryptionConfig(<<0>>, TRUE)} :
            SplitFileWithChunkSize_OpenWith(chunkSize, ec)
    \/ SplitFileWithChunkSize_Chunk
    \/ SplitFileWithChunkSize_Done
    \/ (Pipeline("upload") /\ UploadChunks_Open)
    \/ UploadChunks_Chunk
    \/ UploadChunks_Done
    \/ (Pipeline("cleanup") /\ CleanupChunks)
    \/ (Pipeline("download") /\ \E accounts \in {uploader.googleDrives, {}} :
                                   DownloadChunks_OpenWith(accounts))
    \/ DownloadChunks_Chunk
    \/ DownloadChunks_Done
    \/ AssembleFile_OpenWith(splitEc)
    \/ AssembleFile_Chunk
    \/ AssembleFile_Done

SpecCloud == InitCloud /\ [][NextCloud]_vars

\* ------------------------------------------------------ placement calls
\* Calls of GetChunkDestination on strategies with pools of 0..MaxPool
\* providers, replication counts 0..MaxReplication and every policy value,
\* for chunk indices 0..MaxIndex.
MaxPool == 3
MaxIndex == 5
AllProviders == <<GoogleDrive, Dropbox, "onedrive", "mega", "ipfs">>
Pools == {SubSeq(AllProviders, 1, n) : n \in 0..Min(MaxPool, Len(AllProviders))}
Policies == {"round_robin", "random", "size_based", "weighted"}
DestStrategies == [Providers : Pools, ReplicationCount : 0..MaxReplication,
                   LoadBalancing : Policies]
InitDest == InitOf({<<>>}, [Strategy : DestStrategies, googleDrives : {{}}])

\* cds.GetChunkDestination(chunkIndex) on the strategy of the uploader.
GetChunkDestination_Call ==
    /\ pc = "start"
    /\ \E chunkIndex \in 0..MaxIndex :
         loc' = [op |-> "dest", chunkIndex |-> chunkIndex,
                 destinations |-> GetChunkDestination(uploader.Strategy, chunkIndex)]
    /\ UNCHANGED <<disk, cloud, uploader, now, pc, lastOp, result, hist, chunkReads,
                   manifestWrites, trail, dl>>

NextDest == GetChunkDestination_Call

SpecDest == InitDest /\ [][NextDest]_vars

\* ================================================================== claims
\* A run of AssembleFile has returned.
AssembleReturned == pc = "done" /\ lastOp = "assemble"
\* Split returned nil: it wrote the manifest.
SplitReturnedNil == manifestFile # <<>>
\* The chunk records of the manifest on disk.
ManifestChunks == ReadManifest.m.Chunks.elems
\* The chunk record with index k.
ChunkAt(k) == CHOOSE c \in {ManifestChunks[i] : i \in 1..Len(ManifestChunks)} : c.Index = k

\* C1: round trip. When split has returned nil, no stored chunk byte has been
\* changed, and AssembleFile is called with the encryption setting and key
\* of the split, AssembleFile returns nil and the output file equals the
\* input, whatever the order of the chunk records in the manifest.
C1_RoundTrip ==
    (AssembleReturned /\ SplitReturnedNil /\ ~tampered /\ loc.ec = splitEc)
        => (result = "" /\ out = <<input>>)

\* C1 witness: an encrypted three-chunk input with two identical chunks (one
\* shared chunk file), reassembled from a reordered manifest.
C1_Witness ==
    /\ AssembleReturned /\ result = "" /\ out = <<input>>
    /\ splitEc.Enabled /\ loc.ec = splitEc /\ shuffled
    /\ Len(ManifestChunks) = 3
    /\ Cardinality(DOMAIN chunkDir) = 2

\* C2: integrity detection. After one byte of a stored chunk file has been
\* changed, AssembleFile never returns nil; called with the matching setting
\* it fails in decryption when the chunks are encrypted and with a hash
\* mismatch when they are not.
C2_IntegrityDetection ==
    (AssembleReturned /\ tampered) =>
        /\ result # ""
        /\ (FlagError(ReadManifest.m, loc.ec) = "" =>
              result = IF splitEc.Enabled THEN "failed to decrypt chunk"
                       ELSE "hash mismatch on chunk")

\* C2 witness: the authentication tag (the last symbol) of an encrypted chunk
\* file was changed and AssembleFile, with the right key, failed to decrypt.
C2_Witness ==
    /\ AssembleReturned /\ tampered /\ splitEc.Enabled /\ loc.ec = splitEc
    /\ result = "failed to decrypt chunk"
    /\ \E id \in DOMAIN chunkDir : chunkDir[id][Len(chunkDir[id])] \in Byte

\* The operations run so far.
Ran(op) == \E k \in 1..Len(trail) : trail[k] = op
\* The number of runs of op so far.
Runs(op) == Cardinality({k \in 1..Len(trail) : trail[k] = op})
\* Every chunk record of the manifest has a replica from the last upload pass.
EveryChunkHasReplica ==
    \A i \in 1..Len(ManifestChunks) : Len(ManifestChunks[i].CloudPaths.elems) > 0

\* C3: end-to-end reversal through cloud storage. After split, upload passes
\* of which the last gave every chunk a successful replica, removal of the
\* local chunk files, and a download pass with the accounts of the upload
\* against a backend that did not fail, AssembleFile returns nil and the
\* output equals the input.
C3_CloudRoundTrip ==
    (/\ AssembleReturned /\ SplitReturnedNil
     /\ Ran("upload") /\ Ran("cleanup") /\ Ran("download")
     /\ EveryChunkHasReplica
     /\ dl.accounts = uploader.googleDrives /\ ~dl.faulty
     /\ loc.ec = splitEc)
        => (result = "" /\ out = <<input>>)

\* C3 witness: two encrypted chunks went to two different accounts, the
\* local files were removed, and the download and the assembly restored the
\* input.
C3_Witness ==
    /\ AssembleReturned /\ result = "" /\ out = <<input>> /\ Len(input) = 2
    /\ Ran("upload") /\ Ran("cleanup") /\ Ran("download")
    /\ splitEc.Enabled /\ ~dl.faulty /\ dl.accounts = {"primary", "backup"}
    /\ Len(ManifestChunks) = 2
    /\ \A i \in 1..2 : AccountKey(GoogleDrive) \in DOMAIN ManifestChunks[i].CloudIDs.kv
    /\ ManifestChunks[1].CloudIDs.kv[AccountKey(GoogleDrive)]
         # ManifestChunks[2].CloudIDs.kv[AccountKey(GoogleDrive)]

\* C3 witness of the identical-content case: two chunks share one chunk file
\* and one identifier, went through the cloud, and the input was restored.
C3_WitnessIdentical ==
    /\ AssembleReturned /\ result = "" /\ out = <<input>> /\ input = <<0, 0>>
    /\ Ran("upload") /\ Ran("cleanup") /\ Ran("download")
    /\ Len(ManifestChunks) = 2 /\ ManifestChunks[1].ID = ManifestChunks[2].ID

\* C4: index contiguity. In every manifest on disk, after the split and after
\* any number of upload passes, the chunk indices are exactly 0..N-1, each
\* once, N being the number of chunk records.
C4_IndexContiguity ==
    manifestFile # <<>> =>
        LET N == Len(ManifestChunks)
        IN /\ {ManifestChunks[i].Index : i \in 1..N} = 0..(N - 1)
           /\ \A i, j \in 1..N : ManifestChunks[i].Index = ManifestChunks[j].Index => i = j

\* C4 witness: a two-chunk manifest after two upload passes.
C4_Witness ==
    /\ pc = "idle" /\ Runs("upload") = 2 /\ manifestFile # <<>>
    /\ manifestFile[1].distribution_mode = "cloud"
    /\ {ManifestChunks[i].Index : i \in 1..Len(ManifestChunks)} = {0, 1}

\* C6: in every manifest on disk, written by split or by an upload pass,
\* chunk_count is the number of chunk records and total_size the sum of their
\* stored sizes.
C6_CountAndSizeRecomputed ==
    manifestFile # <<>> =>
        /\ manifestFile[1].chunk_count = Len(ManifestChunks)
        /\ manifestFile[1].total_size = SumSizes(ManifestChunks)

\* C6 witness: a manifest of two encrypted chunks rewritten by an upload
\* pass, with chunk_count 2 and total_size the two stored sizes.
C6_Witness ==
    /\ pc = "idle" /\ lastOp = "upload" /\ manifestFile # <<>>
    /\ manifestFile[1].distribution_mode = "cloud" /\ manifestFile[1].encrypted
    /\ manifestFile[1].chunk_count = 2
    /\ manifestFile[1].total_size = ManifestChunks[1].Size + ManifestChunks[2].Size
    /\ manifestFile[1].total_size > Len(input)

DestReturned == loc.op = "dest"
\* The strategy and the chunk index of the call.
Cds == uploader.Strategy

\* C11: round-robin placement. For a non-empty pool of P providers and
\* replication count R, the list for chunk index c has exactly R entries and
\* its i-th entry (0 <= i < R) is pool[(c + i) mod P].
C11_RoundRobinPlacement ==
    (DestReturned /\ Len(Cds.Providers) > 0 /\ Cds.LoadBalancing = "round_robin") =>
        LET P == Len(Cds.Providers)
            R == Cds.ReplicationCount
        IN /\ Len(loc.destinations) = R
           /\ \A i \in 0..(R - 1) :
                loc.destinations[i + 1] = Cds.Providers[((loc.chunkIndex + i) % P) + 1]

\* C11 witness: chunk 4 on a pool of three with two replicas wraps around:
\* pool[1], pool[2] (0-based).
C11_Witness ==
    /\ DestReturned /\ Cds.LoadBalancing = "round_robin"
    /\ Len(Cds.Providers) = 3 /\ Cds.ReplicationCount = 2 /\ loc.chunkIndex = 4
    /\ loc.destinations = <<Dropbox, "onedrive">>

\* An upload pass has returned.
UploadReturned == pc = "idle" /\ lastOp = "upload"
\* The account recorded for a chunk record.
AccountOf(c) == c.CloudIDs.kv[AccountKey(GoogleDrive)]
\* The chunk record took a Google Drive replica in the last upload pass.
HasDriveReplica(c) ==
    /\ Len(c.CloudPaths.elems) > 0
    /\ ~c.CloudIDs.isNil
    /\ AccountKey(GoogleDrive) \in DOMAIN c.CloudIDs.kv

\* C12: round-robin fairness of the upload. With replication 1 on Google
\* Drive and P accounts, P consecutive chunk indices go to P distinct
\* accounts: here, with two accounts, chunks 0 and 1 of one pass go to
\* different accounts.
C12_ConsecutiveChunksDistinctAccounts ==
    (/\ UploadReturned /\ SplitReturnedNil
     /\ Cds.ReplicationCount = 1 /\ Cds.Providers = <<GoogleDrive>>
     /\ Cardinality(uploader.googleDrives) = 2
     /\ Len(ManifestChunks) = 2
     /\ \A i \in 1..2 : HasDriveReplica(ManifestChunks[i]))
        => AccountOf(ChunkAt(0)) # AccountOf(ChunkAt(1))

\* C13: placement is reproducible. With the same pool and policy, every
\* upload of the chunk with a given index selects the same account: when the
\* chunk identifiers are distinct, all remote files of one chunk, over all
\* upload passes, are in one account.
C13_ReproducibleAccount ==
    (/\ SplitReturnedNil
     /\ \A i, j \in 1..Len(ManifestChunks) :
            ManifestChunks[i].ID = ManifestChunks[j].ID => i = j)
        => \A f, g \in DOMAIN cloud :
              cloud[f].name = cloud[g].name => cloud[f].account = cloud[g].account

\* C14: with an empty pool GetChunkDestination returns exactly the one
\* sentinel destination "local", for every chunk index, replication count
\* and policy.
C14_EmptyPoolLocal ==
    (DestReturned /\ Len(Cds.Providers) = 0) => loc.destinations = <<"local">>

\* C14 witness: an empty pool with two replicas asked for, chunk index 3.
C14_Witness ==
    /\ DestReturned /\ Cds.Providers = <<>> /\ Cds.ReplicationCount = 2
    /\ loc.chunkIndex = 3 /\ loc.destinations = <<"local">>

\* C15: under "random", "size_based" or any other policy value the list is
\* the one "round_robin" gives for the same pool, replication count and
\* chunk index.
C15_PoliciesFallBack ==
    DestReturned =>
        loc.destinations =
            GetChunkDestination([Cds EXCEPT !.LoadBalancing = "round_robin"],
                                loc.chunkIndex)

\* C15 witness: "size_based" on a pool of three, two replicas, chunk 4.
C15_Witness ==
    /\ DestReturned /\ Cds.LoadBalancing = "size_based"
    /\ Len(Cds.Providers) = 3 /\ Cds.ReplicationCount = 2 /\ loc.chunkIndex = 4
    /\ loc.destinations = <<Dropbox, "onedrive">>

\* The number of successful attempts in an outcome vector.
Successes(oc) == Cardinality({j \in 1..Len(oc) : oc[j] # "fail"})

\* C16: upload failure tolerance. In an upload pass a failed attempt only
\* skips that replica: every destination of every chunk is attempted, each
\* chunk ends with as many destination entries as attempts succeeded
\* (possibly fewer than R, possibly none), and UploadChunks returns nil.
C16_UploadFailureTolerated ==
    /\ pc = "upload" =>
          \A k \in 1..(loc.i - 1) :
             LET c == loc.m.Chunks.elems[k]
             IN /\ Len(loc.ocs[k]) = Len(GetChunkDestination(Cds, c.Index))
                /\ Len(c.CloudPaths.elems) = Successes(loc.ocs[k])
                /\ Len(c.Providers.elems) = Successes(loc.ocs[k])
                /\ c.UploadTime = FormatTime(now)
    /\ (UploadReturned /\ SplitReturnedNil) =>
          /\ result = ""
          /\ manifestFile[1].distribution_mode = "cloud"
          /\ \A i \in 1..Len(ManifestChunks) :
                ManifestChunks[i].UploadTime = FormatTime(now)

\* C16 witness: two replicas per chunk; the first attempt of chunk 0 failed
\* and its second succeeded, every attempt of chunk 1 failed, and the loop
\* has gone through both chunks.
C16_Witness ==
    /\ pc = "upload" /\ Len(loc.m.Chunks.elems) = 2 /\ loc.i = 3
    /\ loc.ocs[1] = <<"fail", "primary">>
    /\ loc.ocs[2] = <<"fail", "fail">>
    /\ Len(loc.m.Chunks.elems[1].CloudPaths.elems) = 1
    /\ Len(loc.m.Chunks.elems[2].CloudPaths.elems) = 0

\* The remote identifiers a chunk record holds: the cloud_ids entries keyed
\* by a provider of the record.
RemoteIDs(c) ==
    IF c.CloudIDs.isNil THEN {}
    ELSE {c.CloudIDs.kv[c.Providers.elems[j]] :
            j \in {i \in 1..Len(c.Providers.elems) :
                      c.Providers.elems[i] \in DOMAIN c.CloudIDs.kv}}

\* C17: after an upload pass every destination entry of a chunk record
\* carries the remote identifier (and account) of its own replica: a record
\* with n entries holds n remote identifiers.
C17_EntryCarriesOwnIdentifier ==
    (UploadReturned /\ SplitReturnedNil) =>
        \A i \in 1..Len(ManifestChunks) :
            Len(ManifestChunks[i].CloudPaths.elems)
                <= Cardinality(RemoteIDs(ManifestChunks[i]))

\* A download pass has returned.
DownloadReturned == pc = "idle" /\ lastOp = "download"

\* C18: DownloadChunks never reports success while some chunk was not
\* fetched: when it returns nil, the chunk file of every chunk record is in
\* the download directory.
C18_DownloadSuccessMeansAllFetched ==
    (DownloadReturned /\ SplitReturnedNil /\ result = "") =>
        \A i \in 1..Len(ManifestChunks) : ManifestChunks[i].ID \in DOMAIN chunkDir

\* C19: for each chunk DownloadChunks contacts the recorded destinations in
\* their recorded order, goes on to the next one after a failure, and
\* contacts none after the first success.
C19_OrderedFallThrough ==
    (lastOp = "download" /\ dl.n > 0) =>
        LET a == dl.attempts
        IN /\ Len(a) \in 1..dl.n
           /\ \A j \in 1..Len(a) :
                /\ a[j].dest = j
                /\ a[j].ok => j = Len(a)
                /\ (~a[j].ok /\ j < dl.n) => j < Len(a)

\* C19 witness: a chunk with two recorded destinations; the first was
\* contacted and delivered the chunk, the second was not contacted.
C19_Witness ==
    /\ lastOp = "download" /\ dl.n = 2
    /\ dl.attempts = <<[dest |-> 1, ok |-> TRUE]>>

\* C19 witness of the fall-through: the first destination failed, the second
\* delivered the chunk.
C19_WitnessFallThrough ==
    /\ lastOp = "download" /\ dl.n = 2
    /\ dl.attempts = <<[dest |-> 1, ok |-> FALSE], [dest |-> 2, ok |-> TRUE]>>

\* C20: the distribution mode reflects where the chunks are. A manifest in
\* mode "cloud" has at least one destination on every chunk record, and a
\* manifest with chunks none of which has a destination is in mode "local".
C20_ModeReflectsResidence ==
    manifestFile # <<>> =>
        LET Uploaded(c) == Len(c.CloudPaths.elems) > 0
            N == Len(ManifestChunks)
        IN /\ manifestFile[1].distribution_mode = "cloud" =>
                \A i \in 1..N : Uploaded(ManifestChunks[i])
           /\ (N > 0 /\ \A i \in 1..N : ~Uploaded(ManifestChunks[i])) =>
                manifestFile[1].distribution_mode = "local"

\* C21: the upload timestamp of a chunk is absent until the chunk has had a
\* successful replica upload: a chunk record that never got a remote
\* identifier has no upload_time.
C21_TimestampOnlyAfterSuccess ==
    manifestFile # <<>> =>
        \A i \in 1..Len(ManifestChunks) :
            ManifestChunks[i].CloudIDs.isNil => ManifestChunks[i].UploadTime = <<>>

\* The id, content hash and index of the chunk records of a manifest
\* document, in stored order.
FrameOf(doc) ==
    IF doc.chunks.j = "null" THEN <<>>
    ELSE [i \in 1..Len(doc.chunks.items) |->
            <<doc.chunks.items[i].id, doc.chunks.items[i].hash,
              doc.chunks.items[i].index>>]

\* C22: an upload pass changes no chunk record's id, content hash or index
\* and adds or removes no record: every rewrite of an existing manifest
\* keeps the sequence of (id, hash, index), whatever the upload outcomes.
C22_UploadKeepsIdentity ==
    [][manifestFile # <<>> =>
          /\ manifestFile' # <<>>
          /\ FrameOf(manifestFile'[1]) = FrameOf(manifestFile[1])]_vars

\* C22 witness: after an upload pass in which chunk 0 got a replica and
\* chunk 1 did not, the two records still carry indices 0 and 1 and the
\* identifiers and hashes of the two input bytes.
C22_Witness ==
    /\ UploadReturned /\ manifestFile # <<>> /\ input = <<0, 1>>
    /\ manifestFile[1].distribution_mode = "cloud"
    /\ FrameOf(manifestFile[1]) =
          <<<<ChunkID(Sha256Sum(<<0>>)), HashHex(Sha256Sum(<<0>>)), 0>>,
            <<ChunkID(Sha256Sum(<<1>>)), HashHex(Sha256Sum(<<1>>)), 1>>>>
    /\ Len(ManifestChunks[1].CloudPaths.elems) = 1
    /\ Len(ManifestChunks[2].CloudPaths.elems) = 0

\* C23: upload only adds destinations. A chunk record that got a replica in
\* some pass (it holds a remote identifier) still has a destination recorded
\* after every later pass, also when the later upload of the chunk failed.
C23_DestinationsSurviveRetry ==
    manifestFile # <<>> =>
        \A i \in 1..Len(ManifestChunks) :
            ~ManifestChunks[i].CloudIDs.isNil
                => Len(ManifestChunks[i].CloudPaths.elems) > 0

\* C24: cleanup deletes no chunk's only copy. When CleanupChunks has run,
\* every chunk record of the manifest has a destination recorded and a
\* remote file of its name is stored in the cloud.
C24_CleanupOnlyAfterUpload ==
    (lastOp = "cleanup" /\ SplitReturnedNil) =>
        \A i \in 1..Len(ManifestChunks) :
            /\ Len(ManifestChunks[i].CloudPaths.elems) > 0
            /\ \E f \in DOMAIN cloud :
                  cloud[f].name = PathBase(ManifestChunks[i].CloudPaths.elems[1])

\* C25: a local I/O failure is fatal to an upload pass. When the local file
\* of some chunk could not be opened during the pass, UploadChunks returns
\* an error.
C25_LocalFailureFatalToUpload ==
    (/\ UploadReturned /\ SplitReturnedNil
     /\ \E i \in 1..Len(ManifestChunks) : ManifestChunks[i].ID \notin DOMAIN chunkDir)
        => result # ""

\* C26: in an upload pass the manifest is written exactly once, after the
\* attempts of every chunk: no write has happened while the chunk loop runs,
\* the file does not change between chunk uploads, and when the pass has
\* returned there has been one write.
C26_ManifestWrittenOnceAtEnd ==
    /\ [](pc = "upload" => manifestWrites = 0)
    /\ []((UploadReturned /\ SplitReturnedNil) => manifestWrites = 1)
    /\ [][pc = "upload" /\ pc' = "upload" => manifestFile' = manifestFile]_vars
    /\ [][pc = "upload" /\ manifestFile' # manifestFile =>
            /\ loc.i > Len(loc.m.Chunks.elems)
            /\ Len(loc.ocs) = Len(loc.m.Chunks.elems)]_vars

\* C26 witness: an upload pass over two chunks, one uploaded and one failed,
\* has returned with one manifest write, and the manifest carries the result
\* of both.
C26_Witness ==
    /\ UploadReturned /\ SplitReturnedNil /\ manifestWrites = 1
    /\ Len(ManifestChunks) = 2
    /\ Len(ManifestChunks[1].CloudPaths.elems) = 0
    /\ Len(ManifestChunks[2].CloudPaths.elems) = 1
    /\ \A i \in 1..2 : ManifestChunks[i].UploadTime = FormatTime(now)

\* C27: one file per chunk. After a split into an empty directory that
\* returned nil with N chunk records, the directory holds exactly N chunk
\* files, and records with distinct indices name distinct files.
C27_OneFilePerChunk ==
    (SplitReturnedNil /\ pc = "idle" /\ lastOp = "split") =>
        /\ Cardinality(DOMAIN chunkDir) = Len(ManifestChunks)
        /\ \A i, j \in 1..Len(ManifestChunks) :
              ManifestChunks[i].Index # ManifestChunks[j].Index
                  => ManifestChunks[i].ID # ManifestChunks[j].ID

\* C28: SplitFileWithChunkSize terminates for every non-negative chunk size:
\* while the read loop runs, every chunk produced so far consumed at least
\* one byte of the input, so the number of chunks is bounded by the length
\* of the input, and the loop is at end of file or its next read consumes a
\* byte.
C28_SplitTerminates ==
    pc = "split" =>
        /\ loc.index <= loc.off
        /\ loc.off <= Len(input)
        /\ AtEOF(loc.chunkSize, loc.off) \/ ReadLen(loc.chunkSize, loc.off) > 0

\* C29: a split that fails part-way returns the error without writing the
\* manifest. The failing step leaves the manifest path as it was; after a
\* failed split there is no manifest and no manifest write has happened; and
\* a manifest written by split lists only chunks whose files are in the
\* chunk directory.
C29_FailedSplitWritesNoManifest ==
    /\ []((pc = "idle" /\ lastOp = "split" /\ result # "")
            => (manifestFile = <<>> /\ manifestWrites = 0))
    /\ [](SplitReturnedNil =>
            \A i \in 1..Len(ManifestChunks) : ManifestChunks[i].ID \in DOMAIN chunkDir)
    /\ [][(pc = "split" /\ result' # "") => manifestFile' = manifestFile]_vars

\* C29 witness: split failed writing its second chunk, after the first chunk
\* file was written, and there is no manifest.
C29_Witness ==
    /\ pc = "idle" /\ lastOp = "split" /\ result = "write error"
    /\ Cardinality(DOMAIN chunkDir) = 2
    /\ \E id \in DOMAIN chunkDir : chunkDir[id] = <<>>
    /\ manifestFile = <<>>

\* C30: an upload pass leaves the manifest-level fields fixed at split time
\* unchanged: when UploadChunks has returned nil, original_name, encrypted,
\* created_time, chunk_count and total_size of the manifest equal those of
\* the manifest split wrote.
C30_UploadKeepsManifestFields ==
    (UploadReturned /\ result = "" /\ manifestFile # <<>> /\ splitManifest # <<>>) =>
        LET after == manifestFile[1]
            split == splitManifest[1]
        IN /\ after.original_name = split.original_name
           /\ after.encrypted = split.encrypted
           /\ after.chunk_count = split.chunk_count
           /\ after.total_size = split.total_size
           /\ after.created_time = split.created_time

C8_FlagFailFast ==
    (AssembleReturned /\ SplitReturnedNil
        /\ ReadManifest.m.Encrypted # loc.ec.Enabled)
        => /\ result \in {"file was encrypted but no decryption key provided",
                          "file was not encrypted but decryption key provided"}
           /\ chunkReads = 0
           /\ out = <<>>

\* C8 witness: an encrypted manifest with chunks, assembled without a key.
C8_Witness ==
    /\ AssembleReturned /\ SplitReturnedNil
    /\ ReadManifest.m.Encrypted /\ ~loc.ec.Enabled
    /\ Len(ManifestChunks) > 0
    /\ result = "file was encrypted but no decryption key provided"

\* C9: when AssembleFile fails on a hash mismatch or a decrypt failure, no
\* output file is left at the output path.
C9_NoPartialOutput ==
    (AssembleReturned
        /\ result \in {"hash mismatch on chunk", "failed to decrypt chunk"})
        => out = <<>>

\* C10: a chunk size of zero or less is rejected before any I/O: the input is
\* not opened, the directory is not created, no chunk file or manifest is
\* written.
C10_NonPositiveChunkSizeRejected ==
    (lastOp = "split" /\ splitSize <= 0) =>
        /\ ~inOpened
        /\ ~dirCreated
        /\ chunkDir = NoFiles
        /\ manifestFile = <<>>
====
